---- MODULE Spec2Model ----
(***************************************************************************)
(* Adaptive traffic-signal control loop of backend-reference/improved_app.py *)
(* The module-level globals are the shared state; detection_thread (with    *)
(* ai_signal_controller inlined at its call site) and the Flask handlers    *)
(* get_counts, set_signal and end_override run as concurrent threads.       *)
(* Every statement that reads or writes a module global outside a locked    *)
(* block is a step of its own; a locked block is entered by a step that      *)
(* takes traffic_counts_lock and left by its last write.  Time is in whole  *)
(* seconds.  The read-only endpoints / and /system_status, the log lines    *)
(* and the drawing calls change no state and are left out.                  *)
(***************************************************************************)
EXTENDS Integers, Sequences, FiniteSets, TLC

\* ---------------------------------------------------------------- bounds
\* the clock advances MaxTicks times, by TickStep seconds each time
TickStep == 16
MaxTicks == 2

\* ------------------------------------------------- program constants
MAX_GREEN_TIME == 30
MIN_GREEN_TIME == 8
HIGH_TRAFFIC_THRESHOLD == 15
LOW_TRAFFIC_THRESHOLD == 3

\* ------------------------------------------------- directions as strings
\* A character is its Unicode code point and a string the sequence of its
\* characters: "north" is n o r t h, 110 111 114 116 104.
north == <<110, 111, 114, 116, 104>>
south == <<115, 111, 117, 116, 104>>
east == <<101, 97, 115, 116>>
west == <<119, 101, 115, 116>>

\* valid_directions = ["north", "south", "east", "west"]; the keys of
\* traffic_counts are inserted in the same order
valid_directions == <<north, south, east, west>>

Dirs == {valid_directions[i] : i \in 1..Len(valid_directions)}

\* ------------------------------------------------- str.lower()
\* direction.lower() over the whole of Unicode (U+0000 to U+10FFFF), as the
\* interpreter computes it from the Unicode 14.0 character database.
\* LowerRanges holds the characters whose lower case is another single
\* character: <<lo, hi, step, delta>> says that c + delta is the lower case
\* of every c in lo..hi with (c - lo) a multiple of step.  CasedRanges and
\* CaseIgnorableRanges are the characters with the properties Cased and
\* Case_Ignorable, as <<lo, hi>>.
LowerRanges ==
    << <<65, 90, 1, 32>>, <<192, 214, 1, 32>>, <<216, 222, 1, 32>>,
       <<256, 302, 2, 1>>, <<306, 310, 2, 1>>, <<313, 327, 2, 1>>,
       <<330, 374, 2, 1>>, <<376, 376, 1, -121>>, <<377, 381, 2, 1>>,
       <<385, 385, 1, 210>>, <<386, 388, 2, 1>>, <<390, 390, 1, 206>>,
       <<391, 391, 1, 1>>, <<393, 394, 1, 205>>, <<395, 395, 1, 1>>,
       <<398, 398, 1, 79>>, <<399, 399, 1, 202>>, <<400, 400, 1, 203>>,
       <<401, 401, 1, 1>>, <<403, 403, 1, 205>>, <<404, 404, 1, 207>>,
       <<406, 406, 1, 211>>, <<407, 407, 1, 209>>, <<408, 408, 1, 1>>,
       <<412, 412, 1, 211>>, <<413, 413, 1, 213>>, <<415, 415, 1, 214>>,
       <<416, 420, 2, 1>>, <<422, 422, 1, 218>>, <<423, 423, 1, 1>>,
       <<425, 425, 1, 218>>, <<428, 428, 1, 1>>, <<430, 430, 1, 218>>,
       <<431, 431, 1, 1>>, <<433, 434, 1, 217>>, <<435, 437, 2, 1>>,
       <<439, 439, 1, 219>>, <<440, 440, 1, 1>>, <<444, 444, 1, 1>>,
       <<452, 452, 1, 2>>, <<453, 453, 1, 1>>, <<455, 455, 1, 2>>,
       <<456, 456, 1, 1>>, <<458, 458, 1, 2>>, <<459, 475, 2, 1>>,
       <<478, 494, 2, 1>>, <<497, 497, 1, 2>>, <<498, 500, 2, 1>>,
       <<502, 502, 1, -97>>, <<503, 503, 1, -56>>, <<504, 542, 2, 1>>,
       <<544, 544, 1, -130>>, <<546, 562, 2, 1>>, <<570, 570, 1, 10795>>,
       <<571, 571, 1, 1>>, <<573, 573, 1, -163>>, <<574, 574, 1, 10792>>,
       <<577, 577, 1, 1>>, <<579, 579, 1, -195>>, <<580, 580, 1, 69>>,
       <<581, 581, 1, 71>>, <<582, 590, 2, 1>>, <<880, 882, 2, 1>>,
       <<886, 886, 1, 1>>, <<895, 895, 1, 116>>, <<902, 902, 1, 38>>,
       <<904, 906, 1, 37>>, <<908, 908, 1, 64>>, <<910, 911, 1, 63>>,
       <<913, 929, 1, 32>>, <<931, 939, 1, 32>>, <<975, 975, 1, 8>>,
       <<984, 1006, 2, 1>>, <<1012, 1012, 1, -60>>, <<1015, 1015, 1, 1>>,
       <<1017, 1017, 1, -7>>, <<1018, 1018, 1, 1>>, <<1021, 1023, 1, -130>>,
       <<1024, 1039, 1, 80>>, <<1040, 1071, 1, 32>>, <<1120, 1152, 2, 1>>,
       <<1162, 1214, 2, 1>>, <<1216, 1216, 1, 15>>, <<1217, 1229, 2, 1>>,
       <<1232, 1326, 2, 1>>, <<1329, 1366, 1, 48>>, <<4256, 4293, 1, 7264>>,
       <<4295, 4295, 1, 7264>>, <<4301, 4301, 1, 7264>>,
       <<5024, 5103, 1, 38864>>, <<5104, 5109, 1, 8>>,
       <<7312, 7354, 1, -3008>>, <<7357, 7359, 1, -3008>>,
       <<7680, 7828, 2, 1>>, <<7838, 7838, 1, -7615>>, <<7840, 7934, 2, 1>>,
       <<7944, 7951, 1, -8>>, <<7960, 7965, 1, -8>>, <<7976, 7983, 1, -8>>,
       <<7992, 7999, 1, -8>>, <<8008, 8013, 1, -8>>, <<8025, 8031, 2, -8>>,
       <<8040, 8047, 1, -8>>, <<8072, 8079, 1, -8>>, <<8088, 8095, 1, -8>>,
       <<8104, 8111, 1, -8>>, <<8120, 8121, 1, -8>>, <<8122, 8123, 1, -74>>,
       <<8124, 8124, 1, -9>>, <<8136, 8139, 1, -86>>, <<8140, 8140, 1, -9>>,
       <<8152, 8153, 1, -8>>, <<8154, 8155, 1, -100>>, <<8168, 8169, 1, -8>>,
       <<8170, 8171, 1, -112>>, <<8172, 8172, 1, -7>>,
       <<8184, 8185, 1, -128>>, <<8186, 8187, 1, -126>>,
       <<8188, 8188, 1, -9>>, <<8486, 8486, 1, -7517>>,
       <<8490, 8490, 1, -8383>>, <<8491, 8491, 1, -8262>>,
       <<8498, 8498, 1, 28>>, <<8544, 8559, 1, 16>>, <<8579, 8579, 1, 1>>,
       <<9398, 9423, 1, 26>>, <<11264, 11311, 1, 48>>,
       <<11360, 11360, 1, 1>>, <<11362, 11362, 1, -10743>>,
       <<11363, 11363, 1, -3814>>, <<11364, 11364, 1, -10727>>,
       <<11367, 11371, 2, 1>>, <<11373, 11373, 1, -10780>>,
       <<11374, 11374, 1, -10749>>, <<11375, 11375, 1, -10783>>,
       <<11376, 11376, 1, -10782>>, <<11378, 11378, 1, 1>>,
       <<11381, 11381, 1, 1>>, <<11390, 11391, 1, -10815>>,
       <<11392, 11490, 2, 1>>, <<11499, 11501, 2, 1>>,
       <<11506, 11506, 1, 1>>, <<42560, 42604, 2, 1>>,
       <<42624, 42650, 2, 1>>, <<42786, 42798, 2, 1>>,
       <<42802, 42862, 2, 1>>, <<42873, 42875, 2, 1>>,
       <<42877, 42877, 1, -35332>>, <<42878, 42886, 2, 1>>,
       <<42891, 42891, 1, 1>>, <<42893, 42893, 1, -42280>>,
       <<42896, 42898, 2, 1>>, <<42902, 42920, 2, 1>>,
       <<42922, 42922, 1, -42308>>, <<42923, 42923, 1, -42319>>,
       <<42924, 42924, 1, -42315>>, <<42925, 42925, 1, -42305>>,
       <<42926, 42926, 1, -42308>>, <<42928, 42928, 1, -42258>>,
       <<42929, 42929, 1, -42282>>, <<42930, 42930, 1, -42261>>,
       <<42931, 42931, 1, 928>>, <<42932, 42946, 2, 1>>,
       <<42948, 42948, 1, -48>>, <<42949, 42949, 1, -42307>>,
       <<42950, 42950, 1, -35384>>, <<42951, 42953, 2, 1>>,
       <<42960, 42960, 1, 1>>, <<42966, 42968, 2, 1>>,
       <<42997, 42997, 1, 1>>, <<65313, 65338, 1, 32>>,
       <<66560, 66599, 1, 40>>, <<66736, 66771, 1, 40>>,
       <<66928, 66964, 2, 39>>, <<66929, 66938, 1, 39>>,
       <<66941, 66954, 1, 39>>, <<66957, 66962, 1, 39>>,
       <<66965, 66965, 1, 39>>, <<68736, 68786, 1, 64>>,
       <<71840, 71871, 1, 32>>, <<93760, 93791, 1, 32>>,
       <<125184, 125217, 1, 34>> >>

CasedRanges ==
    << <<65, 90>>, <<97, 122>>, <<170, 170>>, <<181, 181>>, <<186, 186>>,
       <<192, 214>>, <<216, 246>>, <<248, 442>>, <<444, 447>>, <<452, 659>>,
       <<661, 696>>, <<704, 705>>, <<736, 740>>, <<837, 837>>, <<880, 883>>,
       <<886, 887>>, <<890, 893>>, <<895, 895>>, <<902, 902>>, <<904, 906>>,
       <<908, 908>>, <<910, 929>>, <<931, 1013>>, <<1015, 1153>>,
       <<1162, 1327>>, <<1329, 1366>>, <<1376, 1416>>, <<4256, 4293>>,
       <<4295, 4295>>, <<4301, 4301>>, <<4304, 4346>>, <<4349, 4351>>,
       <<5024, 5109>>, <<5112, 5117>>, <<7296, 7304>>, <<7312, 7354>>,
       <<7357, 7359>>, <<7424, 7615>>, <<7680, 7957>>, <<7960, 7965>>,
       <<7968, 8005>>, <<8008, 8013>>, <<8016, 8023>>, <<8025, 8025>>,
       <<8027, 8027>>, <<8029, 8029>>, <<8031, 8061>>, <<8064, 8116>>,
       <<8118, 8124>>, <<8126, 8126>>, <<8130, 8132>>, <<8134, 8140>>,
       <<8144, 8147>>, <<8150, 8155>>, <<8160, 8172>>, <<8178, 8180>>,
       <<8182, 8188>>, <<8305, 8305>>, <<8319, 8319>>, <<8336, 8348>>,
       <<8450, 8450>>, <<8455, 8455>>, <<8458, 8467>>, <<8469, 8469>>,
       <<8473, 8477>>, <<8484, 8484>>, <<8486, 8486>>, <<8488, 8488>>,
       <<8490, 8493>>, <<8495, 8500>>, <<8505, 8505>>, <<8508, 8511>>,
       <<8517, 8521>>, <<8526, 8526>>, <<8544, 8575>>, <<8579, 8580>>,
       <<9398, 9449>>, <<11264, 11492>>, <<11499, 11502>>, <<11506, 11507>>,
       <<11520, 11557>>, <<11559, 11559>>, <<11565, 11565>>,
       <<42560, 42605>>, <<42624, 42653>>, <<42786, 42887>>,
       <<42891, 42894>>, <<42896, 42954>>, <<42960, 42961>>,
       <<42963, 42963>>, <<42965, 42969>>, <<42997, 42998>>,
       <<43000, 43002>>, <<43824, 43866>>, <<43868, 43880>>,
       <<43888, 43967>>, <<64256, 64262>>, <<64275, 64279>>,
       <<65313, 65338>>, <<65345, 65370>>, <<66560, 66639>>,
       <<66736, 66771>>, <<66776, 66811>>, <<66928, 66938>>,
       <<66940, 66954>>, <<66956, 66962>>, <<66964, 66965>>,
       <<66967, 66977>>, <<66979, 66993>>, <<66995, 67001>>,
       <<67003, 67004>>, <<67456, 67456>>, <<67459, 67461>>,
       <<67463, 67504>>, <<67506, 67514>>, <<68736, 68786>>,
       <<68800, 68850>>, <<71840, 71903>>, <<93760, 93823>>,
       <<119808, 119892>>, <<119894, 119964>>, <<119966, 119967>>,
       <<119970, 119970>>, <<119973, 119974>>, <<119977, 119980>>,
       <<119982, 119993>>, <<119995, 119995>>, <<119997, 120003>>,
       <<120005, 120069>>, <<120071, 120074>>, <<120077, 120084>>,
       <<120086, 120092>>, <<120094, 120121>>, <<120123, 120126>>,
       <<120128, 120132>>, <<120134, 120134>>, <<120138, 120144>>,
       <<120146, 120485>>, <<120488, 120512>>, <<120514, 120538>>,
       <<120540, 120570>>, <<120572, 120596>>, <<120598, 120628>>,
       <<120630, 120654>>, <<120656, 120686>>, <<120688, 120712>>,
       <<120714, 120744>>, <<120746, 120770>>, <<120772, 120779>>,
       <<122624, 122633>>, <<122635, 122654>>, <<125184, 125251>>,
       <<127280, 127305>>, <<127312, 127337>>, <<127344, 127369>> >>

CaseIgnorableRanges ==
    << <<39, 39>>, <<46, 46>>, <<58, 58>>, <<94, 94>>, <<96, 96>>,
       <<168, 168>>, <<173, 173>>, <<175, 175>>, <<180, 180>>, <<183, 184>>,
       <<688, 879>>, <<884, 885>>, <<890, 890>>, <<900, 901>>, <<903, 903>>,
       <<1155, 1161>>, <<1369, 1369>>, <<1375, 1375>>, <<1425, 1469>>,
       <<1471, 1471>>, <<1473, 1474>>, <<1476, 1477>>, <<1479, 1479>>,
       <<1524, 1524>>, <<1536, 1541>>, <<1552, 1562>>, <<1564, 1564>>,
       <<1600, 1600>>, <<1611, 1631>>, <<1648, 1648>>, <<1750, 1757>>,
       <<1759, 1768>>, <<1770, 1773>>, <<1807, 1807>>, <<1809, 1809>>,
       <<1840, 1866>>, <<1958, 1968>>, <<2027, 2037>>, <<2042, 2042>>,
       <<2045, 2045>>, <<2070, 2093>>, <<2137, 2139>>, <<2184, 2184>>,
       <<2192, 2193>>, <<2200, 2207>>, <<2249, 2306>>, <<2362, 2362>>,
       <<2364, 2364>>, <<2369, 2376>>, <<2381, 2381>>, <<2385, 2391>>,
       <<2402, 2403>>, <<2417, 2417>>, <<2433, 2433>>, <<2492, 2492>>,
       <<2497, 2500>>, <<2509, 2509>>, <<2530, 2531>>, <<2558, 2558>>,
       <<2561, 2562>>, <<2620, 2620>>, <<2625, 2626>>, <<2631, 2632>>,
       <<2635, 2637>>, <<2641, 2641>>, <<2672, 2673>>, <<2677, 2677>>,
       <<2689, 2690>>, <<2748, 2748>>, <<2753, 2757>>, <<2759, 2760>>,
       <<2765, 2765>>, <<2786, 2787>>, <<2810, 2815>>, <<2817, 2817>>,
       <<2876, 2876>>, <<2879, 2879>>, <<2881, 2884>>, <<2893, 2893>>,
       <<2901, 2902>>, <<2914, 2915>>, <<2946, 2946>>, <<3008, 3008>>,
       <<3021, 3021>>, <<3072, 3072>>, <<3076, 3076>>, <<3132, 3132>>,
       <<3134, 3136>>, <<3142, 3144>>, <<3146, 3149>>, <<3157, 3158>>,
       <<3170, 3171>>, <<3201, 3201>>, <<3260, 3260>>, <<3263, 3263>>,
       <<3270, 3270>>, <<3276, 3277>>, <<3298, 3299>>, <<3328, 3329>>,
       <<3387, 3388>>, <<3393, 3396>>, <<3405, 3405>>, <<3426, 3427>>,
       <<3457, 3457>>, <<3530, 3530>>, <<3538, 3540>>, <<3542, 3542>>,
       <<3633, 3633>>, <<3636, 3642>>, <<3654, 3662>>, <<3761, 3761>>,
       <<3764, 3772>>, <<3782, 3782>>, <<3784, 3789>>, <<3864, 3865>>,
       <<3893, 3893>>, <<3895, 3895>>, <<3897, 3897>>, <<3953, 3966>>,
       <<3968, 3972>>, <<3974, 3975>>, <<3981, 3991>>, <<3993, 4028>>,
       <<4038, 4038>>, <<4141, 4144>>, <<4146, 4151>>, <<4153, 4154>>,
       <<4157, 4158>>, <<4184, 4185>>, <<4190, 4192>>, <<4209, 4212>>,
       <<4226, 4226>>, <<4229, 4230>>, <<4237, 4237>>, <<4253, 4253>>,
       <<4348, 4348>>, <<4957, 4959>>, <<5906, 5908>>, <<5938, 5939>>,
       <<5970, 5971>>, <<6002, 6003>>, <<6068, 6069>>, <<6071, 6077>>,
       <<6086, 6086>>, <<6089, 6099>>, <<6103, 6103>>, <<6109, 6109>>,
       <<6155, 6159>>, <<6211, 6211>>, <<6277, 6278>>, <<6313, 6313>>,
       <<6432, 6434>>, <<6439, 6440>>, <<6450, 6450>>, <<6457, 6459>>,
       <<6679, 6680>>, <<6683, 6683>>, <<6742, 6742>>, <<6744, 6750>>,
       <<6752, 6752>>, <<6754, 6754>>, <<6757, 6764>>, <<6771, 6780>>,
       <<6783, 6783>>, <<6823, 6823>>, <<6832, 6862>>, <<6912, 6915>>,
       <<6964, 6964>>, <<6966, 6970>>, <<6972, 6972>>, <<6978, 6978>>,
       <<7019, 7027>>, <<7040, 7041>>, <<7074, 7077>>, <<7080, 7081>>,
       <<7083, 7085>>, <<7142, 7142>>, <<7144, 7145>>, <<7149, 7149>>,
       <<7151, 7153>>, <<7212, 7219>>, <<7222, 7223>>, <<7288, 7293>>,
       <<7376, 7378>>, <<7380, 7392>>, <<7394, 7400>>, <<7405, 7405>>,
       <<7412, 7412>>, <<7416, 7417>>, <<7468, 7530>>, <<7544, 7544>>,
       <<7579, 7679>>, <<8125, 8125>>, <<8127, 8129>>, <<8141, 8143>>,
       <<8157, 8159>>, <<8173, 8175>>, <<8189, 8190>>, <<8203, 8207>>,
       <<8216, 8217>>, <<8228, 8228>>, <<8231, 8231>>, <<8234, 8238>>,
       <<8288, 8292>>, <<8294, 8303>>, <<8305, 8305>>, <<8319, 8319>>,
       <<8336, 8348>>, <<8400, 8432>>, <<11388, 11389>>, <<11503, 11505>>,
       <<11631, 11631>>, <<11647, 11647>>, <<11744, 11775>>,
       <<11823, 11823>>, <<12293, 12293>>, <<12330, 12333>>,
       <<12337, 12341>>, <<12347, 12347>>, <<12441, 12446>>,
       <<12540, 12542>>, <<40981, 40981>>, <<42232, 42237>>,
       <<42508, 42508>>, <<42607, 42610>>, <<42612, 42621>>,
       <<42623, 42623>>, <<42652, 42655>>, <<42736, 42737>>,
       <<42752, 42785>>, <<42864, 42864>>, <<42888, 42890>>,
       <<42994, 42996>>, <<43000, 43001>>, <<43010, 43010>>,
       <<43014, 43014>>, <<43019, 43019>>, <<43045, 43046>>,
       <<43052, 43052>>, <<43204, 43205>>, <<43232, 43249>>,
       <<43263, 43263>>, <<43302, 43309>>, <<43335, 43345>>,
       <<43392, 43394>>, <<43443, 43443>>, <<43446, 43449>>,
       <<43452, 43453>>, <<43471, 43471>>, <<43493, 43494>>,
       <<43561, 43566>>, <<43569, 43570>>, <<43573, 43574>>,
       <<43587, 43587>>, <<43596, 43596>>, <<43632, 43632>>,
       <<43644, 43644>>, <<43696, 43696>>, <<43698, 43700>>,
       <<43703, 43704>>, <<43710, 43711>>, <<43713, 43713>>,
       <<43741, 43741>>, <<43756, 43757>>, <<43763, 43764>>,
       <<43766, 43766>>, <<43867, 43871>>, <<43881, 43883>>,
       <<44005, 44005>>, <<44008, 44008>>, <<44013, 44013>>,
       <<64286, 64286>>, <<64434, 64450>>, <<65024, 65039>>,
       <<65043, 65043>>, <<65056, 65071>>, <<65106, 65106>>,
       <<65109, 65109>>, <<65279, 65279>>, <<65287, 65287>>,
       <<65294, 65294>>, <<65306, 65306>>, <<65342, 65342>>,
       <<65344, 65344>>, <<65392, 65392>>, <<65438, 65439>>,
       <<65507, 65507>>, <<65529, 65531>>, <<66045, 66045>>,
       <<66272, 66272>>, <<66422, 66426>>, <<67456, 67461>>,
       <<67463, 67504>>, <<67506, 67514>>, <<68097, 68099>>,
       <<68101, 68102>>, <<68108, 68111>>, <<68152, 68154>>,
       <<68159, 68159>>, <<68325, 68326>>, <<68900, 68903>>,
       <<69291, 69292>>, <<69446, 69456>>, <<69506, 69509>>,
       <<69633, 69633>>, <<69688, 69702>>, <<69744, 69744>>,
       <<69747, 69748>>, <<69759, 69761>>, <<69811, 69814>>,
       <<69817, 69818>>, <<69821, 69821>>, <<69826, 69826>>,
       <<69837, 69837>>, <<69888, 69890>>, <<69927, 69931>>,
       <<69933, 69940>>, <<70003, 70003>>, <<70016, 70017>>,
       <<70070, 70078>>, <<70089, 70092>>, <<70095, 70095>>,
       <<70191, 70193>>, <<70196, 70196>>, <<70198, 70199>>,
       <<70206, 70206>>, <<70367, 70367>>, <<70371, 70378>>,
       <<70400, 70401>>, <<70459, 70460>>, <<70464, 70464>>,
       <<70502, 70508>>, <<70512, 70516>>, <<70712, 70719>>,
       <<70722, 70724>>, <<70726, 70726>>, <<70750, 70750>>,
       <<70835, 70840>>, <<70842, 70842>>, <<70847, 70848>>,
       <<70850, 70851>>, <<71090, 71093>>, <<71100, 71101>>,
       <<71103, 71104>>, <<71132, 71133>>, <<71219, 71226>>,
       <<71229, 71229>>, <<71231, 71232>>, <<71339, 71339>>,
       <<71341, 71341>>, <<71344, 71349>>, <<71351, 71351>>,
       <<71453, 71455>>, <<71458, 71461>>, <<71463, 71467>>,
       <<71727, 71735>>, <<71737, 71738>>, <<71995, 71996>>,
       <<71998, 71998>>, <<72003, 72003>>, <<72148, 72151>>,
       <<72154, 72155>>, <<72160, 72160>>, <<72193, 72202>>,
       <<72243, 72248>>, <<72251, 72254>>, <<72263, 72263>>,
       <<72273, 72278>>, <<72281, 72283>>, <<72330, 72342>>,
       <<72344, 72345>>, <<72752, 72758>>, <<72760, 72765>>,
       <<72767, 72767>>, <<72850, 72871>>, <<72874, 72880>>,
       <<72882, 72883>>, <<72885, 72886>>, <<73009, 73014>>,
       <<73018, 73018>>, <<73020, 73021>>, <<73023, 73029>>,
       <<73031, 73031>>, <<73104, 73105>>, <<73109, 73109>>,
       <<73111, 73111>>, <<73459, 73460>>, <<78896, 78904>>,
       <<92912, 92916>>, <<92976, 92982>>, <<92992, 92995>>,
       <<94031, 94031>>, <<94095, 94111>>, <<94176, 94177>>,
       <<94179, 94180>>, <<110576, 110579>>, <<110581, 110587>>,
       <<110589, 110590>>, <<113821, 113822>>, <<113824, 113827>>,
       <<118528, 118573>>, <<118576, 118598>>, <<119143, 119145>>,
       <<119155, 119170>>, <<119173, 119179>>, <<119210, 119213>>,
       <<119362, 119364>>, <<121344, 121398>>, <<121403, 121452>>,
       <<121461, 121461>>, <<121476, 121476>>, <<121499, 121503>>,
       <<121505, 121519>>, <<122880, 122886>>, <<122888, 122904>>,
       <<122907, 122913>>, <<122915, 122916>>, <<122918, 122922>>,
       <<123184, 123197>>, <<123566, 123566>>, <<123628, 123631>>,
       <<125136, 125142>>, <<125252, 125259>>, <<127995, 127999>>,
       <<917505, 917505>>, <<917536, 917631>>, <<917760, 917999>> >>

InRanges(c, ranges) ==
    \E i \in 1..Len(ranges) : ranges[i][1] <= c /\ c <= ranges[i][2]

IsCased(c) == InRanges(c, CasedRanges)

IsCaseIgnorable(c) == InRanges(c, CaseIgnorableRanges)

\* the lower case of one character out of context: one character, or two
\* for U+0130 (capital I with dot above: i and the combining dot U+0307)
LowerChar(c) ==
    IF c < 128 THEN << IF 65 <= c /\ c <= 90 THEN c + 32 ELSE c >>
    ELSE IF c = 304 THEN <<105, 775>>
    ELSE IF \E i \in 1..Len(LowerRanges) :
                /\ LowerRanges[i][1] <= c
                /\ c <= LowerRanges[i][2]
                /\ (c - LowerRanges[i][1]) % LowerRanges[i][3] = 0
         THEN LET i == CHOOSE j \in 1..Len(LowerRanges) :
                          /\ LowerRanges[j][1] <= c
                          /\ c <= LowerRanges[j][2]
                          /\ (c - LowerRanges[j][1]) % LowerRanges[j][3] = 0
              IN  << c + LowerRanges[i][4] >>
         ELSE << c >>

\* capital sigma U+03A3 at place i of s: final small sigma U+03C2 when the
\* nearest character before it that is not case-ignorable is cased and the
\* nearest one after it that is not case-ignorable, if any, is not cased;
\* small sigma U+03C3 otherwise
handle_capital_sigma(s, i) ==
    LET before == {j \in 1..(i - 1) : ~IsCaseIgnorable(s[j])}
        after == {j \in (i + 1)..Len(s) : ~IsCaseIgnorable(s[j])}
        last == CHOOSE j \in before : \A k \in before : k <= j
        first == CHOOSE j \in after : \A k \in after : j <= k
        final_sigma ==
            /\ before # {}
            /\ IsCased(s[last])
            /\ after = {} \/ ~IsCased(s[first])
    IN  IF final_sigma THEN 962 ELSE 963

RECURSIVE do_lower(_, _)
do_lower(s, i) ==
    IF i > Len(s) THEN << >>
    ELSE (IF s[i] = 931 THEN << handle_capital_sigma(s, i) >>
          ELSE LowerChar(s[i])) \o do_lower(s, i + 1)

lower(s) == do_lower(s, 1)

\* ------------------------------------------------- smoothing arithmetic
\* int(0.7 * old_count + 0.3 * new_count) in IEEE-754 double precision.
\* 0.7 is stored as M7 * 2^-53 with 10 * M7 = 7 * 2^53 - 4 and 0.3 as
\* M3 * 2^-54 with 10 * M3 = 3 * 2^54 - 2; in hexadecimal M7 is
\* 16666666666666 and M3 is 13333333333333, so that the low 24 bits of each
\* are twice the same 12 bits, 0x666 and 0x333.  Each product k * M is
\* rounded to 53 significant bits (round half to even); the rounding error
\* is an integer that is computed from the low 24 bits of k * M, which is
\* exact for counts below 2^24 (at most 23 bits are dropped).
M7Low == 1638
M3Low == 819

RECURSIVE Pow2(_)
Pow2(n) == IF n <= 0 THEN 1 ELSE 2 * Pow2(n - 1)

\* number of low bits dropped when k * M is rounded to 53 bits:
\* the largest t with 5 * 2^t <= num * k  (num = 7 for 0.7, 6 for 0.3)
RECURSIVE DroppedBits(_, _)
DroppedBits(x, t) == IF 5 * Pow2(t + 1) <= x THEN DroppedBits(x, t + 1) ELSE t

\* the low 24 bits of k * M, for M whose low 24 bits are low * (2^12 + 1)
\* and k < 2^24, computed in 12-bit halves
LowProduct(k, low) ==
    LET h == Pow2(12)
        k0 == k % h
        k1 == k \div h
    IN  (k0 * low + (((k0 + k1) * low) % h) * h) % (h * h)

\* rounded(k * M) - k * M, in units of the last place of M
RoundErr(k, num, low) ==
    IF k = 0 THEN 0
    ELSE LET d == DroppedBits(num * k, 0)
             g == Pow2(d)
             p == LowProduct(k, low)
             r == p % g
             odd == (p % (2 * g)) \div g
             up == \/ 2 * r > g
                   \/ 2 * r = g /\ odd = 1
         IN  IF d = 0 THEN 0 ELSE IF up THEN g - r ELSE 0 - r

\* exponent of the doubles just below the integer K >= 1
RECURSIVE ExpBelow(_, _)
ExpBelow(K, j) == IF Pow2(j + 1) < K THEN ExpBelow(K, j + 1) ELSE j

\* mutant: the smoothed value is rounded to the nearest integer
SmoothRounded(old_count, new_count) ==
    (7 * old_count + 3 * new_count + 5) \div 10

Smooth(old_count, new_count) ==
    LET E == 7 * old_count + 3 * new_count
        K == E \div 10
        \* K - (a + b) = D / (10 * 2^54) for the rounded products a and b
        D == 8 * old_count + 2 * new_count
               - 20 * RoundErr(old_count, 7, M7Low)
               - 10 * RoundErr(new_count, 6, M3Low)
        e == IF K <= 1 THEN 0 - 1 ELSE ExpBelow(K, 0)
        lim == IF e < 0 THEN 10 ELSE 10 * Pow2(e + 1)
    IN  IF E % 10 # 0 THEN K
        ELSE IF D > lim THEN K - 1 ELSE K


\* ------------------------------------------------- threads and inputs
LoopThread == "loop"
ApiThreads == {"a1", "a2"}
Threads == {LoopThread} \cup ApiThreads
Unlocked == "unlocked"

\* the API workers: a1 serves every endpoint, a2 only the override endpoints
Pollers == {"a1"}

\* detect_vehicles_in_frame: the region_counts of the frames of the video,
\* an empty junction or vehicles on the east approach
Frames ==
    { [d \in Dirs |-> 0],
      [d \in Dirs |-> IF d = east THEN 4 ELSE 0] }
NoFrame == [d \in Dirs |-> 0 - 1]

\* <direction> path segments of /set_signal requests: "South", "EAST",
\* "northeast" and "WE\u03A3T", a look-alike of "WEST" with the Greek
\* capital sigma in the place of S
Requests ==
    { <<83, 111, 117, 116, 104>>,
      <<69, 65, 83, 84>>,
      <<110, 111, 114, 116, 104, 101, 97, 115, 116>>,
      <<87, 69, 931, 84>> }

NoArg == << >>
NoCounts == [d \in Dirs |-> 0]
NoResponse ==
    [status |-> "none", code |-> 0, counts |-> NoCounts,
     signal |-> NoArg, manual_override |-> FALSE, valid |-> << >>]

VARIABLES
    traffic_counts,       \* line 20
    traffic_counts_lock,  \* line 21: Unlocked or the thread that holds it
    current_signal,       \* line 22
    manual_override,      \* line 23
    signal_timer,         \* line 24
    now,                  \* time.time()
    pc,                   \* position of every thread
    region_counts,        \* detection_thread: counts of the frame in hand
    op,                   \* handler an API thread is running
    arg,                  \* set_signal: its direction argument
    current_counts,       \* get_counts: its copy of traffic_counts
    resp,                 \* response under construction / returned
    hist                  \* history: the fully-applied states so far
                          \* (kept under SpecSnapshot only, {} otherwise)

shared == <<traffic_counts, current_signal, manual_override, signal_timer>>

\* what a snapshot shows of the shared state
applied == <<traffic_counts, current_signal, manual_override>>

\* the history gains the state a step leaves, unless the step leaves a
\* set_signal between its write of current_signal and of manual_override
Record(h, state, half_applied) ==
    IF h = {} \/ half_applied THEN h ELSE h \cup {state}
vars == <<traffic_counts, traffic_counts_lock, current_signal, manual_override,
          signal_timer, now, pc, region_counts, op, arg, current_counts, resp,
          hist>>

Init ==
    /\ traffic_counts = [d \in Dirs |-> 0]
    /\ traffic_counts_lock = Unlocked
    /\ current_signal = north
    /\ manual_override = FALSE
    /\ signal_timer = 0
    /\ now = 0
    /\ pc = [t \in Threads |-> IF t = LoopThread THEN "read" ELSE "idle"]
    /\ region_counts = NoFrame
    /\ op = [t \in ApiThreads |-> "none"]
    /\ arg = [t \in ApiThreads |-> NoArg]
    /\ current_counts = [t \in ApiThreads |-> NoCounts]
    /\ resp = [t \in ApiThreads |-> NoResponse]
    /\ hist = {}

\* time passes between two readings of time.time()
Tick ==
    /\ now < MaxTicks * TickStep
    /\ now' = now + TickStep
    /\ UNCHANGED <<traffic_counts, traffic_counts_lock, current_signal,
                   manual_override, signal_timer, pc, region_counts, op, arg,
                   current_counts, resp>>
    /\ UNCHANGED hist

\* ------------------------------------------------- ai_signal_controller
\* mutant: a later key replaces the best also when it is equal
RECURSIVE MaxFromLast(_, _, _)
MaxFromLast(counts, i, best) ==
    IF i > Len(valid_directions) THEN best
    ELSE IF counts[valid_directions[i]] >= counts[best]
         THEN MaxFromLast(counts, i + 1, valid_directions[i])
         ELSE MaxFromLast(counts, i + 1, best)

\* max(traffic_counts, key=traffic_counts.get): the keys are visited in
\* insertion order and a later key replaces the best only if strictly larger
RECURSIVE MaxFrom(_, _, _)
MaxFrom(counts, i, best) ==
    IF i > Len(valid_directions) THEN best
    ELSE IF counts[valid_directions[i]] > counts[best]
         THEN MaxFrom(counts, i + 1, valid_directions[i])
         ELSE MaxFrom(counts, i + 1, best)

max_traffic_dir(counts) == MaxFrom(counts, 2, valid_directions[1])

\* mutant: the timeout rule, like the other two, asks for another direction
DecisionTimeoutNeedsOther(counts, signal, time_since_change) ==
    LET max_dir == max_traffic_dir(counts)
    IN  IF time_since_change > MAX_GREEN_TIME /\ max_dir # signal
        THEN <<TRUE, max_dir>>
        ELSE <<FALSE, signal>>

\* mutant: the starvation rule fires as soon as the emergency rule may
DecisionStarvationEarly(counts, signal, time_since_change) ==
    LET current_count == counts[signal]
        max_dir == max_traffic_dir(counts)
        max_traffic_count == counts[max_dir]
    IN  IF time_since_change > MAX_GREEN_TIME
        THEN <<TRUE, max_dir>>
        ELSE IF /\ time_since_change > MIN_GREEN_TIME \div 2
                /\ current_count < LOW_TRAFFIC_THRESHOLD
                /\ max_traffic_count > HIGH_TRAFFIC_THRESHOLD
                /\ max_dir # signal
        THEN <<TRUE, max_dir>>
        ELSE IF /\ max_traffic_count > HIGH_TRAFFIC_THRESHOLD * 2
                /\ max_dir # signal
                /\ time_since_change > MIN_GREEN_TIME \div 2
        THEN <<TRUE, max_dir>>
        ELSE <<FALSE, signal>>

\* mutant: the emergency rule waits for the whole minimum green time
DecisionEmergencyLate(counts, signal, time_since_change) ==
    LET current_count == counts[signal]
        max_dir == max_traffic_dir(counts)
        max_traffic_count == counts[max_dir]
    IN  IF time_since_change > MAX_GREEN_TIME
        THEN <<TRUE, max_dir>>
        ELSE IF /\ time_since_change > MIN_GREEN_TIME
                /\ current_count < LOW_TRAFFIC_THRESHOLD
                /\ max_traffic_count > HIGH_TRAFFIC_THRESHOLD
                /\ max_dir # signal
        THEN <<TRUE, max_dir>>
        ELSE IF /\ max_traffic_count > HIGH_TRAFFIC_THRESHOLD * 2
                /\ max_dir # signal
                /\ time_since_change > MIN_GREEN_TIME
        THEN <<TRUE, max_dir>>
        ELSE <<FALSE, signal>>

\* mutant: the emergency rule does not look at the elapsed time
DecisionEmergencyAtOnce(counts, signal, time_since_change) ==
    LET current_count == counts[signal]
        max_dir == max_traffic_dir(counts)
        max_traffic_count == counts[max_dir]
    IN  IF time_since_change > MAX_GREEN_TIME
        THEN <<TRUE, max_dir>>
        ELSE IF /\ time_since_change > MIN_GREEN_TIME
                /\ current_count < LOW_TRAFFIC_THRESHOLD
                /\ max_traffic_count > HIGH_TRAFFIC_THRESHOLD
                /\ max_dir # signal
        THEN <<TRUE, max_dir>>
        ELSE IF /\ max_traffic_count > HIGH_TRAFFIC_THRESHOLD * 2
                /\ max_dir # signal
        THEN <<TRUE, max_dir>>
        ELSE <<FALSE, signal>>

\* lines 97-121: the rule cascade; the result is <<should_switch, new_signal>>
Decision(counts, signal, time_since_change) ==
    LET current_count == counts[signal]
        max_dir == max_traffic_dir(counts)
        max_traffic_count == counts[max_dir]
    IN  IF time_since_change > MAX_GREEN_TIME
        THEN <<TRUE, max_dir>>
        ELSE IF /\ time_since_change > MIN_GREEN_TIME
                /\ current_count < LOW_TRAFFIC_THRESHOLD
                /\ max_traffic_count > HIGH_TRAFFIC_THRESHOLD
                /\ max_dir # signal
        THEN <<TRUE, max_dir>>
        ELSE IF /\ max_traffic_count > HIGH_TRAFFIC_THRESHOLD * 2
                /\ max_dir # signal
                /\ time_since_change > MIN_GREEN_TIME \div 2
        THEN <<TRUE, max_dir>>
        ELSE <<FALSE, signal>>

\* ------------------------------------------------- detection_thread
apiLocals == <<op, arg, current_counts, resp>>

\* lines 138-146: cap.read() and detect_vehicles_in_frame give region_counts
ReadFrame(f) ==
    /\ pc[LoopThread] = "read"
    /\ region_counts' = f
    /\ pc' = [pc EXCEPT ![LoopThread] = "update_lock"]
    /\ UNCHANGED <<traffic_counts, traffic_counts_lock, current_signal,
                   manual_override, signal_timer, now, apiLocals>>
    /\ UNCHANGED hist

\* lines 140-143: ret is false, the video is rewound and the cycle restarts
ReadNoFrame ==
    /\ pc[LoopThread] = "read"
    /\ pc' = [pc EXCEPT ![LoopThread] = "rewind"]
    /\ UNCHANGED <<traffic_counts, traffic_counts_lock, current_signal,
                   manual_override, signal_timer, now, region_counts, apiLocals>>
    /\ UNCHANGED hist

Rewind ==
    /\ pc[LoopThread] = "rewind"
    /\ pc' = [pc EXCEPT ![LoopThread] = "read"]
    /\ UNCHANGED <<traffic_counts, traffic_counts_lock, current_signal,
                   manual_override, signal_timer, now, region_counts, apiLocals>>
    /\ UNCHANGED hist

\* lines 137, 176-178: a statement of the try body outside the locked blocks
\* raises (cap.read or the detection, cap.set of the rewind, the overlay and
\* display calls): the handler logs, sleeps 1 s and the next cycle begins
DetectError ==
    /\ pc[LoopThread] \in {"read", "rewind", "show"}
    /\ pc' = [pc EXCEPT ![LoopThread] = "backoff"]
    /\ UNCHANGED <<traffic_counts, traffic_counts_lock, current_signal,
                   manual_override, signal_timer, now, region_counts, apiLocals>>
    /\ UNCHANGED hist

Backoff ==
    /\ pc[LoopThread] = "backoff"
    /\ pc' = [pc EXCEPT ![LoopThread] = "read"]
    /\ UNCHANGED <<traffic_counts, traffic_counts_lock, current_signal,
                   manual_override, signal_timer, now, region_counts, apiLocals>>
    /\ UNCHANGED hist

\* line 149: with traffic_counts_lock
UpdateAcquire ==
    /\ pc[LoopThread] = "update_lock"
    /\ traffic_counts_lock = Unlocked
    /\ traffic_counts_lock' = LoopThread
    /\ pc' = [pc EXCEPT ![LoopThread] = "update"]
    /\ UNCHANGED <<traffic_counts, current_signal, manual_override,
                   signal_timer, now, region_counts, apiLocals>>
    /\ UNCHANGED hist

\* lines 150-154: every direction is smoothed, then the lock is released
UpdateCounts ==
    /\ pc[LoopThread] = "update"
    /\ traffic_counts' =
           [d \in Dirs |-> Smooth(traffic_counts[d], region_counts[d])]
    /\ traffic_counts_lock' = Unlocked
    /\ region_counts' = NoFrame
    /\ pc' = [pc EXCEPT ![LoopThread] = "ctl_check"]
    /\ UNCHANGED <<current_signal, manual_override, signal_timer, now,
                   apiLocals>>
    /\ hist' = Record(hist, applied', \E u \in ApiThreads : pc'[u] = "ss_override")

\* mutant: the controller does not look at the override flag
override_check_ignored(flag) == FALSE

\* lines 86-87: if manual_override: return   (read without the lock)
override_check(flag) == flag

CtlCheck ==
    /\ pc[LoopThread] = "ctl_check"
    /\ pc' = [pc EXCEPT ![LoopThread] =
                 IF override_check(manual_override) THEN "show" ELSE "ctl_lock"]
    /\ UNCHANGED <<traffic_counts, traffic_counts_lock, current_signal,
                   manual_override, signal_timer, now, region_counts, apiLocals>>
    /\ UNCHANGED hist

\* line 89: with traffic_counts_lock
CtlAcquire ==
    /\ pc[LoopThread] = "ctl_lock"
    /\ traffic_counts_lock = Unlocked
    /\ traffic_counts_lock' = LoopThread
    /\ pc' = [pc EXCEPT ![LoopThread] = "ctl_decide"]
    /\ UNCHANGED <<traffic_counts, current_signal, manual_override,
                   signal_timer, now, region_counts, apiLocals>>
    /\ UNCHANGED hist

\* lines 90-124: the decision and, on a switch, current_signal = new_signal
CtlDecide ==
    /\ pc[LoopThread] = "ctl_decide"
    /\ LET dec == Decision(traffic_counts, current_signal, now - signal_timer)
       IN  IF dec[1]
           THEN /\ current_signal' = dec[2]
                /\ pc' = [pc EXCEPT ![LoopThread] = "ctl_timer"]
                /\ UNCHANGED traffic_counts_lock
           ELSE /\ traffic_counts_lock' = Unlocked
                /\ pc' = [pc EXCEPT ![LoopThread] = "show"]
                /\ UNCHANGED current_signal
    /\ UNCHANGED <<traffic_counts, manual_override, signal_timer, now,
                   region_counts, apiLocals>>
    /\ hist' = Record(hist, applied', \E u \in ApiThreads : pc'[u] = "ss_override")

\* mutant: a switch leaves signal_timer as it is
CtlTimerNoReset ==
    /\ pc[LoopThread] = "ctl_timer"
    /\ traffic_counts_lock' = Unlocked
    /\ pc' = [pc EXCEPT ![LoopThread] = "show"]
    /\ UNCHANGED <<traffic_counts, current_signal, manual_override, now,
                   signal_timer, region_counts, apiLocals>>
    /\ UNCHANGED hist

\* line 125: signal_timer = time.time(), then the lock is released
CtlTimer ==
    /\ pc[LoopThread] = "ctl_timer"
    /\ signal_timer' = now
    /\ traffic_counts_lock' = Unlocked
    /\ pc' = [pc EXCEPT ![LoopThread] = "show"]
    /\ UNCHANGED <<traffic_counts, current_signal, manual_override, now,
                   region_counts, apiLocals>>
    /\ UNCHANGED hist

\* lines 160-174: overlay, imshow, waitKey, sleep(0.1), next cycle
Show ==
    /\ pc[LoopThread] = "show"
    /\ pc' = [pc EXCEPT ![LoopThread] = "read"]
    /\ UNCHANGED <<traffic_counts, traffic_counts_lock, current_signal,
                   manual_override, signal_timer, now, region_counts, apiLocals>>
    /\ UNCHANGED hist

\* lines 171-172, 180-182: 'q' pressed, the loop ends
Quit ==
    /\ pc[LoopThread] = "show"
    /\ pc' = [pc EXCEPT ![LoopThread] = "stopped"]
    /\ UNCHANGED <<traffic_counts, traffic_counts_lock, current_signal,
                   manual_override, signal_timer, now, region_counts, apiLocals>>
    /\ UNCHANGED hist

\* a cycle in which the detector yields counts
control_cycle ==
    \/ \E f \in Frames : ReadFrame(f)
    \/ UpdateAcquire
    \/ UpdateCounts
    \/ CtlCheck
    \/ CtlAcquire
    \/ CtlDecide
    \/ CtlTimer
    \/ Show

detection_thread ==
    \/ control_cycle
    \/ ReadNoFrame
    \/ Rewind
    \/ DetectError
    \/ Backoff
    \/ Quit

\* ------------------------------------------------- get_counts
\* line 195: the request arrives and the handler takes the lock
GcAcquire(t) ==
    /\ pc[t] = "idle"
    /\ traffic_counts_lock = Unlocked
    /\ traffic_counts_lock' = t
    /\ op' = [op EXCEPT ![t] = "get_counts"]
    /\ pc' = [pc EXCEPT ![t] = "gc_copy"]
    /\ UNCHANGED <<traffic_counts, current_signal, manual_override,
                   signal_timer, now, region_counts, arg, current_counts, resp>>
    /\ UNCHANGED hist

\* line 196: current_counts = traffic_counts.copy(), then the lock is released
GcCopy(t) ==
    /\ pc[t] = "gc_copy"
    /\ current_counts' = [current_counts EXCEPT ![t] = traffic_counts]
    /\ traffic_counts_lock' = Unlocked
    /\ pc' = [pc EXCEPT ![t] = "gc_signal"]
    /\ UNCHANGED <<traffic_counts, current_signal, manual_override,
                   signal_timer, now, region_counts, op, arg, resp>>
    /\ UNCHANGED hist

\* lines 199-200: "counts": current_counts, "signal": current_signal
GcSignal(t) ==
    /\ pc[t] = "gc_signal"
    /\ resp' = [resp EXCEPT ![t].counts = current_counts[t],
                            ![t].signal = current_signal]
    /\ pc' = [pc EXCEPT ![t] = "gc_override"]
    /\ UNCHANGED <<traffic_counts, traffic_counts_lock, current_signal,
                   manual_override, signal_timer, now, region_counts, op, arg,
                   current_counts>>
    /\ UNCHANGED hist

\* lines 201-205: "manual_override": manual_override, and the response is sent
\* ("timestamp" and "total_vehicles" restate the clock and current_counts)
GcOverride(t) ==
    /\ pc[t] = "gc_override"
    /\ resp' = [resp EXCEPT ![t].manual_override = manual_override,
                            ![t].status = "success",
                            ![t].code = 200]
    /\ pc' = [pc EXCEPT ![t] = "done"]
    /\ UNCHANGED <<traffic_counts, traffic_counts_lock, current_signal,
                   manual_override, signal_timer, now, region_counts, op, arg,
                   current_counts>>
    /\ UNCHANGED hist

get_counts(t) == GcAcquire(t) \/ GcCopy(t) \/ GcSignal(t) \/ GcOverride(t)

\* ------------------------------------------------- set_signal
\* mutant: no request is rejected
is_valid_always(direction) == TRUE

\* line 214: direction.lower() not in valid_directions
is_valid(direction) == lower(direction) \in Dirs

\* mutant: the direction is stored as it was given
new_current_signal_as_given(direction) == direction

\* line 221: the value stored in current_signal
new_current_signal(direction) == lower(direction)

\* lines 214-218: an invalid direction is answered with 400 at once;
\* a valid one goes on to the locked block
SsCall(t, direction) ==
    /\ pc[t] = "idle"
    /\ op' = [op EXCEPT ![t] = "set_signal"]
    /\ arg' = [arg EXCEPT ![t] = direction]
    /\ IF is_valid(direction)
       THEN /\ pc' = [pc EXCEPT ![t] = "ss_lock"]
            /\ UNCHANGED resp
       ELSE /\ pc' = [pc EXCEPT ![t] = "done"]
            /\ resp' = [resp EXCEPT ![t].status = "error",
                                    ![t].code = 400,
                                    ![t].valid = valid_directions]
    /\ UNCHANGED <<traffic_counts, traffic_counts_lock, current_signal,
                   manual_override, signal_timer, now, region_counts,
                   current_counts>>
    /\ UNCHANGED hist

\* line 220: with traffic_counts_lock
SsAcquire(t) ==
    /\ pc[t] = "ss_lock"
    /\ traffic_counts_lock = Unlocked
    /\ traffic_counts_lock' = t
    /\ pc' = [pc EXCEPT ![t] = "ss_signal"]
    /\ UNCHANGED <<traffic_counts, current_signal, manual_override,
                   signal_timer, now, region_counts, apiLocals>>
    /\ UNCHANGED hist

\* line 221: current_signal = direction.lower()
SsSignal(t) ==
    /\ pc[t] = "ss_signal"
    /\ current_signal' = new_current_signal(arg[t])
    /\ pc' = [pc EXCEPT ![t] = "ss_override"]
    /\ UNCHANGED <<traffic_counts, traffic_counts_lock, manual_override,
                   signal_timer, now, region_counts, apiLocals>>
    /\ UNCHANGED hist

\* line 222: manual_override = True
SsOverride(t) ==
    /\ pc[t] = "ss_override"
    /\ manual_override' = TRUE
    /\ pc' = [pc EXCEPT ![t] = "ss_timer"]
    /\ UNCHANGED <<traffic_counts, traffic_counts_lock, current_signal,
                   signal_timer, now, region_counts, apiLocals>>
    /\ hist' = Record(hist, applied', \E u \in ApiThreads : pc'[u] = "ss_override")

\* mutant: the override does not restart the phase timer
SsTimerNoReset(t) ==
    /\ pc[t] = "ss_timer"
    /\ traffic_counts_lock' = Unlocked
    /\ pc' = [pc EXCEPT ![t] = "ss_resp_signal"]
    /\ UNCHANGED <<traffic_counts, current_signal, manual_override, now,
                   signal_timer, region_counts, apiLocals, hist>>

\* line 223: signal_timer = time.time(), then the lock is released
SsTimer(t) ==
    /\ pc[t] = "ss_timer"
    /\ signal_timer' = now
    /\ traffic_counts_lock' = Unlocked
    /\ pc' = [pc EXCEPT ![t] = "ss_resp_signal"]
    /\ UNCHANGED <<traffic_counts, current_signal, manual_override, now,
                   region_counts, apiLocals>>
    /\ UNCHANGED hist

\* line 230: "current_signal": current_signal   (read after the release)
SsRespSignal(t) ==
    /\ pc[t] = "ss_resp_signal"
    /\ resp' = [resp EXCEPT ![t].signal = current_signal]
    /\ pc' = [pc EXCEPT ![t] = "ss_resp_override"]
    /\ UNCHANGED <<traffic_counts, traffic_counts_lock, current_signal,
                   manual_override, signal_timer, now, region_counts, op, arg,
                   current_counts>>
    /\ UNCHANGED hist

\* lines 231-232: "manual_override": manual_override, and the response is sent
SsRespOverride(t) ==
    /\ pc[t] = "ss_resp_override"
    /\ resp' = [resp EXCEPT ![t].manual_override = manual_override,
                            ![t].status = "success",
                            ![t].code = 200]
    /\ pc' = [pc EXCEPT ![t] = "done"]
    /\ UNCHANGED <<traffic_counts, traffic_counts_lock, current_signal,
                   manual_override, signal_timer, now, region_counts, op, arg,
                   current_counts>>
    /\ UNCHANGED hist

set_signal(t) ==
    \/ \E direction \in Requests : SsCall(t, direction)
    \/ SsAcquire(t)
    \/ SsSignal(t)
    \/ SsOverride(t)
    \/ SsTimer(t)
    \/ SsRespSignal(t)
    \/ SsRespOverride(t)

\* ------------------------------------------------- end_override
\* mutant: clearing the override also restarts the phase timer
EoWriteResetsTimer(t) ==
    /\ pc[t] = "idle"
    /\ op' = [op EXCEPT ![t] = "end_override"]
    /\ manual_override' = FALSE
    /\ signal_timer' = now
    /\ pc' = [pc EXCEPT ![t] = "eo_resp"]
    /\ UNCHANGED <<traffic_counts, traffic_counts_lock, current_signal,
                   now, region_counts, arg, current_counts, resp, hist>>

\* mutant: the endpoint toggles the override instead of clearing it
EoWriteToggles(t) ==
    /\ pc[t] = "idle"
    /\ op' = [op EXCEPT ![t] = "end_override"]
    /\ manual_override' = ~manual_override
    /\ pc' = [pc EXCEPT ![t] = "eo_resp"]
    /\ UNCHANGED <<traffic_counts, traffic_counts_lock, current_signal,
                   signal_timer, now, region_counts, arg, current_counts, resp,
                   hist>>

\* line 239: the request arrives and manual_override = False is stored
\* (no lock is taken)
EoWrite(t) ==
    /\ pc[t] = "idle"
    /\ op' = [op EXCEPT ![t] = "end_override"]
    /\ manual_override' = FALSE
    /\ pc' = [pc EXCEPT ![t] = "eo_resp"]
    /\ UNCHANGED <<traffic_counts, traffic_counts_lock, current_signal,
                   signal_timer, now, region_counts, arg, current_counts, resp>>
    /\ hist' = Record(hist, applied', \E u \in ApiThreads : pc'[u] = "ss_override")

\* lines 243-247: "status": "success", "manual_override": manual_override
EoResp(t) ==
    /\ pc[t] = "eo_resp"
    /\ resp' = [resp EXCEPT ![t].manual_override = manual_override,
                            ![t].status = "success",
                            ![t].code = 200]
    /\ pc' = [pc EXCEPT ![t] = "done"]
    /\ UNCHANGED <<traffic_counts, traffic_counts_lock, current_signal,
                   manual_override, signal_timer, now, region_counts, op, arg,
                   current_counts>>
    /\ UNCHANGED hist

end_override(t) == EoWrite(t) \/ EoResp(t)

\* the response has been delivered; the worker is free for the next request
Return(t) ==
    /\ pc[t] = "done"
    /\ pc' = [pc EXCEPT ![t] = "idle"]
    /\ op' = [op EXCEPT ![t] = "none"]
    /\ arg' = [arg EXCEPT ![t] = NoArg]
    /\ current_counts' = [current_counts EXCEPT ![t] = NoCounts]
    /\ resp' = [resp EXCEPT ![t] = NoResponse]
    /\ UNCHANGED <<traffic_counts, traffic_counts_lock, current_signal,
                   manual_override, signal_timer, now, region_counts>>
    /\ UNCHANGED hist

Next ==
    \/ Tick
    \/ detection_thread
    \/ \E t \in Pollers : get_counts(t)
    \/ \E t \in ApiThreads : set_signal(t)
    \/ \E t \in ApiThreads : end_override(t)
    \/ \E t \in ApiThreads : Return(t)

Spec == Init /\ [][Next]_vars

\* The same program with the history kept: one poller (a1) reads snapshots
\* while the control loop runs and one operator (a2) sets overrides.
InitSnapshot ==
    /\ traffic_counts = [d \in Dirs |-> 0]
    /\ traffic_counts_lock = Unlocked
    /\ current_signal = north
    /\ manual_override = FALSE
    /\ signal_timer = 0
    /\ now = 0
    /\ pc = [t \in Threads |-> IF t = LoopThread THEN "read" ELSE "idle"]
    /\ region_counts = NoFrame
    /\ op = [t \in ApiThreads |-> "none"]
    /\ arg = [t \in ApiThreads |-> NoArg]
    /\ current_counts = [t \in ApiThreads |-> NoCounts]
    /\ resp = [t \in ApiThreads |-> NoResponse]
    /\ hist = {applied}

NextSnapshot ==
    \/ Tick
    \/ control_cycle
    \/ \E t \in Pollers : get_counts(t)
    \/ \E t \in ApiThreads \ Pollers : set_signal(t)
    \/ \E t \in ApiThreads : Return(t)

SpecSnapshot == InitSnapshot /\ [][NextSnapshot]_vars

\* ------------------------------------------------- one controller invocation
\* smoothed counts and elapsed times on both sides of the thresholds of the
\* rules (3, 15, 30 vehicles; 4, 8, 30 seconds)
CountLevels == {1, 2, 3, 15, 16, 20, 30, 31}
ElapsedLevels == {2, 4, 5, 8, 9, 10, 30, 31}

\* line 157: ai_signal_controller() is called
ai_signal_controller == CtlCheck \/ CtlAcquire \/ CtlDecide \/ CtlTimer

\* The loop has just updated the counts and calls the controller: any counts,
\* any active direction, any time since the last reset of signal_timer.
InitCtl ==
    /\ traffic_counts \in [Dirs -> CountLevels]
    /\ traffic_counts_lock = Unlocked
    /\ current_signal \in Dirs
    /\ manual_override = FALSE
    /\ signal_timer = 0
    /\ now \in ElapsedLevels
    /\ pc = [t \in Threads |-> IF t = LoopThread THEN "ctl_check" ELSE "idle"]
    /\ region_counts = NoFrame
    /\ op = [t \in ApiThreads |-> "none"]
    /\ arg = [t \in ApiThreads |-> NoArg]
    /\ current_counts = [t \in ApiThreads |-> NoCounts]
    /\ resp = [t \in ApiThreads |-> NoResponse]
    /\ hist = {}

SpecCtl == InitCtl /\ [][ai_signal_controller]_vars

\* ------------------------------------------------- steady traffic
\* The loop, an operator thread and a clock read every FloorStep seconds,
\* under traffic that does not change: each frame shows the counts the
\* smoothing has settled on (Smooth(c, c) = c for the counts of FloorScenes).
FloorStep == 2
FloorTicks == 16

FloorScenes ==
    { [d \in Dirs |-> IF d = east THEN 31 ELSE 2],
      [d \in Dirs |-> IF d = east THEN 30 ELSE 2],
      [d \in Dirs |-> IF d = south THEN 16 ELSE 2] }

Operators == ApiThreads \ Pollers

InitFloor ==
    /\ traffic_counts \in FloorScenes
    /\ traffic_counts_lock = Unlocked
    /\ current_signal = north
    /\ manual_override = FALSE
    /\ signal_timer = 0
    /\ now = 0
    /\ pc = [t \in Threads |-> IF t = LoopThread THEN "read" ELSE "idle"]
    /\ region_counts = NoFrame
    /\ op = [t \in ApiThreads |-> "none"]
    /\ arg = [t \in ApiThreads |-> NoArg]
    /\ current_counts = [t \in ApiThreads |-> NoCounts]
    /\ resp = [t \in ApiThreads |-> NoResponse]
    /\ hist = {}

TickFloor ==
    /\ now < FloorTicks * FloorStep
    /\ now' = now + FloorStep
    /\ UNCHANGED <<traffic_counts, traffic_counts_lock, current_signal,
                   manual_override, signal_timer, pc, region_counts, op, arg,
                   current_counts, resp>>
    /\ UNCHANGED hist

steady_cycle ==
    \/ ReadFrame(traffic_counts)
    \/ UpdateAcquire
    \/ UpdateCounts
    \/ ai_signal_controller
    \/ Show

NextFloor ==
    \/ TickFloor
    \/ steady_cycle
    \/ \E t \in Operators : set_signal(t)
    \/ \E t \in Operators : end_override(t)
    \/ \E t \in Operators : Return(t)

SpecFloor == InitFloor /\ [][NextFloor]_vars

\* ------------------------------------------------- smoothing alone
\* The loop alone while time passes: vehicles are seen on the east approach
\* only, the smoothed count of east starts anywhere.
MaxSmoothed == 40
MaxObserved == 40

SmoothFrames ==
    { [d \in Dirs |-> IF d = east THEN o ELSE 0] : o \in 0 .. MaxObserved }
ZeroFrame == [d \in Dirs |-> 0]

InitLoop(start) ==
    /\ traffic_counts \in
           { [d \in Dirs |-> IF d = east THEN p ELSE 0] : p \in start }
    /\ traffic_counts_lock = Unlocked
    /\ current_signal = north
    /\ manual_override = FALSE
    /\ signal_timer = 0
    /\ now = 0
    /\ pc = [t \in Threads |-> IF t = LoopThread THEN "read" ELSE "idle"]
    /\ region_counts = NoFrame
    /\ op = [t \in ApiThreads |-> "none"]
    /\ arg = [t \in ApiThreads |-> NoArg]
    /\ current_counts = [t \in ApiThreads |-> NoCounts]
    /\ resp = [t \in ApiThreads |-> NoResponse]
    /\ hist = {}

\* the rest of a cycle, once the frame has been read
RestOfCycle ==
    \/ UpdateAcquire
    \/ UpdateCounts
    \/ ai_signal_controller
    \/ Show

InitSmooth == InitLoop(0 .. MaxSmoothed)
NextSmooth == Tick \/ (\E f \in SmoothFrames : ReadFrame(f)) \/ RestOfCycle
SpecSmooth == InitSmooth /\ [][NextSmooth]_vars

\* the detector reports no vehicle, cycle after cycle, and the loop thread
\* keeps running
InitDecay == InitLoop(1 .. MaxSmoothed)
decay_cycle == ReadFrame(ZeroFrame) \/ RestOfCycle
NextDecay == Tick \/ decay_cycle
SpecDecay == InitDecay /\ [][NextDecay]_vars /\ WF_vars(decay_cycle)

\* ------------------------------------------------- the loop for ever
\* The loop alone, no override, with vehicles on every approach in every
\* frame (now and then more on the east approach), and a clock that never
\* stops. The program reads the clock only as now - signal_timer, so once
\* now has reached MaxTicks * TickStep a further TickStep seconds are counted
\* by moving signal_timer back instead, down to 0: from there on the elapsed
\* time stands for "more than MAX_GREEN_TIME".
BusyFrames ==
    { [d \in Dirs |-> 4],
      [d \in Dirs |-> IF d = east THEN 8 ELSE 4] }

TickOn ==
    /\ IF now < MaxTicks * TickStep
       THEN /\ now' = now + TickStep
            /\ UNCHANGED signal_timer
       ELSE /\ signal_timer > 0
            /\ signal_timer' =
                   IF signal_timer > TickStep THEN signal_timer - TickStep ELSE 0
            /\ UNCHANGED now
    /\ UNCHANGED <<traffic_counts, traffic_counts_lock, current_signal,
                   manual_override, pc, region_counts, op, arg,
                   current_counts, resp>>
    /\ UNCHANGED hist

busy_cycle ==
    \/ \E f \in BusyFrames : ReadFrame(f)
    \/ UpdateAcquire
    \/ UpdateCounts
    \/ ai_signal_controller
    \/ Show

NextStarve == TickOn \/ busy_cycle

\* the loop thread is a running thread and time passes
SpecStarve ==
    /\ Init
    /\ [][NextStarve]_vars
    /\ WF_vars(busy_cycle)
    /\ WF_vars(TickOn)


\* ================================================= claims

\* positions of the loop thread inside ai_signal_controller
ControllerPcs == {"ctl_check", "ctl_lock", "ctl_decide", "ctl_timer"}

\* positions from which the next step is made inside a locked block
LockedPcs ==
    {"update", "ctl_decide", "ctl_timer", "gc_copy",
     "ss_signal", "ss_override", "ss_timer"}

Moves(t) == pc'[t] # pc[t]
EoWriteStep(t) == pc[t] = "idle" /\ pc'[t] = "eo_resp"

\* the step thread t takes reads or writes traffic_counts, current_signal,
\* manual_override or signal_timer: the locked blocks, the override check of
\* the controller (line 86), the overlay of the loop (lines 160-164), the
\* reads for the responses (lines 200-201, 230-231, 246) and the write of
\* end_override (line 239)
AccessStep(t) ==
    /\ Moves(t)
    /\ \/ pc[t] \in LockedPcs
       \/ pc[t] \in {"ctl_check", "show", "gc_signal", "gc_override",
                     "ss_resp_signal", "ss_resp_override", "eo_resp"}
       \/ EoWriteStep(t)

\* C1: while manual_override is true, no step of ai_signal_controller changes
\* current_signal or signal_timer, whatever it read before the override.
C1_OverrideHoldsOffController ==
    [][ (manual_override /\ pc[LoopThread] \in ControllerPcs /\ Moves(LoopThread))
          => (current_signal' = current_signal /\ signal_timer' = signal_timer)
      ]_vars

\* C2: a controller invocation that finds manual_override true returns at
\* once and changes neither current_signal nor signal_timer, and only the
\* write of end_override turns manual_override from true to false.
C2_OverrideSuppressesController ==
    [][ /\ (pc[LoopThread] = "ctl_check" /\ manual_override /\ Moves(LoopThread))
            => /\ pc'[LoopThread] = "show"
               /\ current_signal' = current_signal
               /\ signal_timer' = signal_timer
               /\ traffic_counts_lock' = traffic_counts_lock
        /\ (manual_override /\ ~manual_override')
            => \E t \in ApiThreads : EoWriteStep(t) /\ op'[t] = "end_override"
      ]_vars

\* the controller has returned under an override although the rules, on the
\* present counts and elapsed time, would switch to another direction
C2_Witness ==
    /\ manual_override
    /\ pc[LoopThread] = "show"
    /\ traffic_counts_lock = Unlocked
    /\ traffic_counts[east] > 0
    /\ current_signal = south
    /\ Decision(traffic_counts, current_signal, now - signal_timer) = <<TRUE, east>>

\* C3: every get_counts response (counts, signal, manual_override) is one of
\* the fully-applied states that have existed so far.
C3_SnapshotIsOneState ==
    \A t \in Pollers :
        (pc[t] = "done" /\ op[t] = "get_counts")
            => <<resp[t].counts, resp[t].signal, resp[t].manual_override>> \in hist

\* C4: no thread reads or writes the shared state, as part of a TrafficState
\* operation, while another thread is inside a locked block.
C4_OperationsSerialized ==
    [][ \A t \in Threads :
            AccessStep(t) => traffic_counts_lock \in {Unlocked, t}
      ]_vars

\* C5: a set_signal whose lower-cased direction is not a valid direction is
\* answered with 400 and the valid directions, and no step of that request
\* changes traffic_counts, current_signal, manual_override or signal_timer.
C5_InvalidDirectionRejected ==
    [][ \A t \in ApiThreads :
            (Moves(t) /\ op'[t] = "set_signal" /\ lower(arg'[t]) \notin Dirs)
                => /\ pc'[t] \in {"done", "idle"}
                   /\ pc'[t] = "done" =>
                          /\ resp'[t].status = "error"
                          /\ resp'[t].code = 400
                          /\ resp'[t].valid = valid_directions
                   /\ shared' = shared
                   /\ traffic_counts_lock' = traffic_counts_lock
      ]_vars

\* "northeast" and "WE\u03A3T" (lower case "we\u03C3t") have both been
\* rejected while an override was in force
C5_Witness ==
    /\ manual_override
    /\ current_signal = south
    /\ signal_timer > 0
    /\ \E t \in ApiThreads :
          /\ pc[t] = "done"
          /\ op[t] = "set_signal"
          /\ arg[t] = <<110, 111, 114, 116, 104, 101, 97, 115, 116>>
          /\ resp[t].code = 400
    /\ \E t \in ApiThreads :
          /\ pc[t] = "done"
          /\ op[t] = "set_signal"
          /\ arg[t] = <<87, 69, 931, 84>>
          /\ lower(arg[t]) = <<119, 101, 963, 116>>
          /\ resp[t].code = 400
          /\ resp[t].valid = valid_directions

\* C6: set_signal with a valid direction writes current_signal (the
\* lower-cased direction), manual_override (true) and signal_timer (the
\* current time) while it holds the lock; from its first write to the
\* release no other thread takes a step of a locked block and traffic_counts
\* does not change, and at the release current_signal and signal_timer are
\* the values it wrote.
C6_OverrideSetAtomic ==
    [][ \A t \in ApiThreads :
          /\ (pc[t] = "ss_signal" /\ Moves(t))
                => /\ traffic_counts_lock = t
                   /\ lower(arg[t]) \in Dirs
                   /\ current_signal' = lower(arg[t])
          /\ (pc[t] = "ss_override" /\ Moves(t))
                => /\ traffic_counts_lock = t
                   /\ current_signal = lower(arg[t])
                   /\ manual_override'
          /\ (pc[t] = "ss_timer" /\ Moves(t))
                => /\ traffic_counts_lock = t
                   /\ current_signal' = lower(arg[t])
                   /\ signal_timer' = now
                   /\ traffic_counts_lock' = Unlocked
          /\ pc[t] \in {"ss_signal", "ss_override", "ss_timer"}
                => /\ traffic_counts' = traffic_counts
                   /\ \A u \in Threads \ {t} : ~(pc[u] \in LockedPcs /\ Moves(u))
      ]_vars

\* an upper-case request has installed its override, later than time 0 and
\* with vehicles counted
C6_Witness ==
    \E t \in ApiThreads :
        /\ pc[t] = "ss_resp_signal"
        /\ arg[t] = <<69, 65, 83, 84>>
        /\ current_signal = east
        /\ manual_override
        /\ signal_timer = now
        /\ now > 0
        /\ traffic_counts[east] > 0

\* C7: current_signal is always one of north, south, east, west.
C7_OneActiveDirection == current_signal \in Dirs

\* requests in mixed and upper case and an invalid request have been served
\* and the active direction is not the initial one
C7_Witness ==
    /\ current_signal = south
    /\ \E t \in ApiThreads :
          /\ pc[t] = "done"
          /\ arg[t] = <<83, 111, 117, 116, 104>>
          /\ resp[t].status = "success"
    /\ \E t \in ApiThreads : pc[t] = "done" /\ resp[t].code = 400

\* C8: the write of end_override sets manual_override to false and leaves
\* current_signal, signal_timer, traffic_counts and the lock as they are, and
\* the rest of the handler writes nothing.
C8_EndOverrideFrame ==
    [][ \A t \in ApiThreads :
          /\ EoWriteStep(t)
                => /\ ~manual_override'
                   /\ current_signal' = current_signal
                   /\ signal_timer' = signal_timer
                   /\ traffic_counts' = traffic_counts
                   /\ traffic_counts_lock' = traffic_counts_lock
          /\ (pc[t] = "eo_resp" /\ Moves(t)) => shared' = shared
      ]_vars

\* an override set earlier has been cleared: the direction it chose and its
\* timer are still in place
C8_Witness ==
    \E t \in ApiThreads :
        /\ pc[t] = "done"
        /\ op[t] = "end_override"
        /\ ~manual_override
        /\ current_signal = south
        /\ signal_timer > 0
        /\ signal_timer < now

\* C9: end_override leaves manual_override false, and run where it is false
\* already (as a second call in a row is) it changes nothing of the
\* TrafficState; it answers success in every case.
C9_EndOverrideIdempotent ==
    [][ \A t \in ApiThreads :
          /\ EoWriteStep(t) => ~manual_override'
          /\ (EoWriteStep(t) /\ ~manual_override) => shared' = shared
          /\ (pc[t] = "eo_resp" /\ Moves(t))
                => /\ pc'[t] = "done"
                   /\ resp'[t].status = "success"
                   /\ resp'[t].code = 200
      ]_vars

\* two end_override calls have been answered and no override was ever set
\* (the signal is still north with its first timer)
C9_Witness ==
    /\ \A t \in ApiThreads :
          /\ pc[t] = "done"
          /\ op[t] = "end_override"
          /\ resp[t].status = "success"
    /\ ~manual_override
    /\ current_signal = north
    /\ signal_timer = 0
    /\ now > 0
    /\ pc[LoopThread] # "ctl_timer"

\* C10: a decision taken more than MAX_GREEN_TIME after signal_timer makes a
\* direction with the maximum count the active one, whichever was active,
\* and goes on to reset signal_timer to the current time.
C10_TimeoutRule ==
    [][ /\ ( /\ pc[LoopThread] = "ctl_decide"
             /\ Moves(LoopThread)
             /\ now - signal_timer > 30 )
            => /\ pc'[LoopThread] = "ctl_timer"
               /\ current_signal' \in Dirs
               /\ \A d \in Dirs :
                      traffic_counts[current_signal'] >= traffic_counts[d]
        /\ (pc[LoopThread] = "ctl_timer" /\ Moves(LoopThread))
            => /\ signal_timer' = now
               /\ current_signal' = current_signal
      ]_vars

\* the timeout rule has made east, the only direction with vehicles, the
\* active one and is about to reset the timer
C10_Witness ==
    /\ pc[LoopThread] = "ctl_timer"
    /\ now - signal_timer > 30
    /\ current_signal = east
    /\ traffic_counts[east] > 0
    /\ ~manual_override

\* the busiest direction the decision step at hand sees
Busiest == max_traffic_dir(traffic_counts)
DecideStep == pc[LoopThread] = "ctl_decide" /\ Moves(LoopThread)
NoSwitch ==
    /\ pc'[LoopThread] = "show"
    /\ current_signal' = current_signal
    /\ signal_timer' = signal_timer

\* C11: a decision taken more than 8 and at most 30 seconds after
\* signal_timer, with fewer than 3 vehicles on the active direction and more
\* than 15 on the busiest, another, direction, makes the busiest direction the
\* active one and goes on to reset signal_timer; with such counts (and at
\* most 30 on the busiest) a decision taken at most 8 seconds after
\* signal_timer switches nothing.
C11_StarvationRule ==
    [][ DecideStep =>
          LET elapsed == now - signal_timer
              starving == /\ traffic_counts[current_signal] < 3
                          /\ traffic_counts[Busiest] > 15
                          /\ Busiest # current_signal
          IN  /\ (starving /\ elapsed > 8 /\ elapsed <= 30)
                    => /\ current_signal' = Busiest
                       /\ pc'[LoopThread] = "ctl_timer"
              /\ (starving /\ elapsed <= 8 /\ traffic_counts[Busiest] <= 30)
                    => NoSwitch
      ]_vars

\* 10 seconds into north's green, with 1 vehicle on north and 20 on south,
\* the controller has made south the active direction
C11_Witness ==
    /\ pc[LoopThread] = "ctl_timer"
    /\ now - signal_timer = 10
    /\ traffic_counts[north] = 1
    /\ traffic_counts[south] = 20
    /\ traffic_counts[east] = 1
    /\ traffic_counts[west] = 1
    /\ current_signal = south
    /\ ~manual_override

\* C12: a decision taken more than 4 seconds after signal_timer, with more
\* than 30 vehicles on the busiest direction and another direction active,
\* makes the busiest direction the active one, whatever the count of the
\* active direction, and goes on to reset signal_timer; taken at most 4
\* seconds after signal_timer it switches nothing.
C12_EmergencyRule ==
    [][ DecideStep =>
          LET elapsed == now - signal_timer
              emergency == /\ traffic_counts[Busiest] > 30
                           /\ Busiest # current_signal
          IN  /\ (emergency /\ elapsed > 4)
                    => /\ current_signal' = Busiest
                       /\ pc'[LoopThread] = "ctl_timer"
              /\ (emergency /\ elapsed <= 4) => NoSwitch
      ]_vars

\* 5 seconds after signal_timer the controller has made east, with 31
\* vehicles, the active direction although every other direction has 30
C12_Witness ==
    /\ pc[LoopThread] = "ctl_timer"
    /\ now - signal_timer = 5
    /\ traffic_counts[east] = 31
    /\ \A d \in Dirs \ {east} : traffic_counts[d] = 30
    /\ current_signal = east
    /\ ~manual_override

\* C13: whatever the operators do meanwhile, a decision taken at most 8
\* seconds after signal_timer changes current_signal, or goes on to reset
\* signal_timer, only if it is taken more than 4 seconds after signal_timer
\* and makes a direction with more than 30 vehicles, other than the active
\* one, the active direction; and signal_timer, when the controller resets it
\* at most 8 seconds after its last reset, is reset for such a direction and
\* more than 4 seconds after that reset.
C13_MinimumGreenFloor ==
    [][ /\ ( /\ DecideStep
             /\ now - signal_timer <= 8
             /\ (current_signal' # current_signal \/ pc'[LoopThread] = "ctl_timer") )
            => /\ now - signal_timer > 4
               /\ traffic_counts[current_signal'] > 30
               /\ current_signal' # current_signal
        /\ ( /\ pc[LoopThread] \in ControllerPcs
             /\ Moves(LoopThread)
             /\ signal_timer' # signal_timer
             /\ now - signal_timer <= 8 )
            => /\ now - signal_timer > 4
               /\ traffic_counts[current_signal] > 30
      ]_vars

\* an operator has set and ended an override, and 8 seconds after the reset
\* of signal_timer by that override the controller has switched to east,
\* which has 31 vehicles
C13_Witness ==
    /\ pc[LoopThread] = "ctl_timer"
    /\ now - signal_timer = 8
    /\ signal_timer > 0
    /\ current_signal = east
    /\ traffic_counts[east] = 31
    /\ ~manual_override
    /\ \E t \in Operators : pc[t] = "done" /\ op[t] = "end_override"

UpdateStep == pc[LoopThread] = "update" /\ Moves(LoopThread)

\* C14: an update moves the smoothed count of a direction toward the
\* observed count and never past it: with o observed, a smoothed count
\* p >= o becomes a value in o .. p and a smoothed count p <= o a value in
\* p .. o (so that under a constant o the sequence is monotone and stays on
\* its side of o).
C14_SmoothingConverges ==
    [][ UpdateStep =>
          \A d \in Dirs :
              LET p == traffic_counts[d]
                  o == region_counts[d]
                  n == traffic_counts'[d]
              IN  /\ p >= o => (o <= n /\ n <= p)
                  /\ p <= o => (p <= n /\ n <= o)
      ]_vars

\* C15: with no vehicle observed, an update makes a positive smoothed count
\* strictly smaller and never negative and leaves a zero count zero; and if
\* no vehicle is observed on any cycle, the count of every direction is
\* eventually 0 for good.
C15_DecayToZero ==
    /\ [][ UpdateStep =>
             \A d \in Dirs :
                 region_counts[d] = 0 =>
                     /\ traffic_counts'[d] >= 0
                     /\ traffic_counts[d] > 0
                            => traffic_counts'[d] < traffic_counts[d]
                     /\ traffic_counts[d] = 0 => traffic_counts'[d] = 0
         ]_vars
    /\ \A d \in Dirs : <>[](traffic_counts[d] = 0)

\* the count of east, positive at the start, has decayed to 0 and a further
\* frame without vehicles is about to be applied to it
C15_Witness ==
    /\ pc[LoopThread] = "update"
    /\ traffic_counts[east] = 0
    /\ region_counts[east] = 0

\* C16: a cycle in which the detector yields no counts (no frame, or an
\* exception) changes none of traffic_counts, current_signal,
\* manual_override, signal_timer, and takes the loop through the log and the
\* backoff pause and from there to the next read, never to a stop.
C16_DetectionFailureBacksOff ==
    [][ /\ ( /\ pc[LoopThread] = "read"
             /\ Moves(LoopThread)
             /\ pc'[LoopThread] # "update_lock" )
            => /\ pc'[LoopThread] = "backoff"
               /\ shared' = shared
        /\ (pc[LoopThread] = "backoff" /\ Moves(LoopThread))
            => /\ pc'[LoopThread] = "read"
               /\ shared' = shared
      ]_vars

\* C17: with no override, the loop running and time passing, a direction
\* that keeps a positive smoothed count from some cycle on is, after that
\* cycle, eventually the active direction.
C17_NoStarvation ==
    \A d \in Dirs :
        []( [](traffic_counts[d] > 0) => <>(current_signal = d) )

CtlTimerStep == pc[LoopThread] = "ctl_timer" /\ Moves(LoopThread)
SsTimerStep(t) == pc[t] = "ss_timer" /\ Moves(t)

\* C18 as stated: signal_timer is reset to the current time by every
\* end_override, by every successful set_signal and by the controller when
\* it changes the active direction, and is modified by no other step; a
\* controller decision that keeps the active direction does not go on to
\* reset it.
C18_TimerResetExactly ==
    [][ /\ \A t \in ApiThreads : EoWriteStep(t) => signal_timer' = now
        /\ \A t \in ApiThreads : SsTimerStep(t) => signal_timer' = now
        /\ CtlTimerStep => signal_timer' = now
        /\ (DecideStep /\ current_signal' = current_signal)
               => pc'[LoopThread] # "ctl_timer"
        /\ signal_timer' # signal_timer
               => \/ CtlTimerStep
                  \/ \E t \in ApiThreads : SsTimerStep(t) \/ EoWriteStep(t)
      ]_vars

\* C18 as amended: signal_timer is reset to the current time by every switch
\* decision of the controller, the timeout rule's choice of the already
\* active direction included, and by every successful set_signal, in the
\* locked block that wrote current_signal; end_override and every other step
\* leave it as it is.
C18_TimerResetOnSwitchOrSet ==
    [][ /\ CtlTimerStep => (signal_timer' = now /\ traffic_counts_lock' = Unlocked)
        /\ \A t \in ApiThreads : SsTimerStep(t) => signal_timer' = now
        /\ DecideStep =>
              (pc'[LoopThread] = "ctl_timer"
                   <=> Decision(traffic_counts, current_signal,
                                now - signal_timer)[1])
        /\ current_signal' # current_signal
               => \/ /\ DecideStep
                     /\ pc'[LoopThread] = "ctl_timer"
                     /\ traffic_counts_lock' = LoopThread
                  \/ \E t \in ApiThreads :
                        /\ pc[t] = "ss_signal" /\ Moves(t)
                        /\ traffic_counts_lock' = t
        /\ \A t \in ApiThreads :
              (pc[t] \in {"ss_signal", "ss_override"} /\ Moves(t))
                  => (pc'[t] \in {"ss_override", "ss_timer"}
                         /\ traffic_counts_lock' = t)
        /\ \A t \in ApiThreads : EoWriteStep(t) => signal_timer' = signal_timer
        /\ signal_timer' # signal_timer
               => \/ CtlTimerStep
                  \/ \E t \in ApiThreads : SsTimerStep(t)
      ]_vars

\* an end_override has been answered and signal_timer is still the initial
\* one, 32 seconds old; the timeout rule has chosen north for the empty
\* junction and the controller is about to reset signal_timer
C18_Witness ==
    /\ pc[LoopThread] = "ctl_timer"
    /\ signal_timer = 0
    /\ now > 30
    /\ current_signal = north
    /\ \A d \in Dirs : traffic_counts[d] = 0
    /\ ~manual_override
    /\ \E t \in ApiThreads : pc[t] = "done" /\ op[t] = "end_override"

\* C19: the direction a switch decision makes active is the first of north,
\* south, east, west, in this order, whose count is the maximum: no direction
\* has more vehicles and every direction before it has fewer.
C19_FirstMaxWins ==
    [][ (DecideStep /\ pc'[LoopThread] = "ctl_timer") =>
          LET order == <<north, south, east, west>>
          IN  \E i \in 1 .. 4 :
                 /\ current_signal' = order[i]
                 /\ \A j \in 1 .. 4 :
                        traffic_counts[order[j]] <= traffic_counts[order[i]]
                 /\ \A j \in 1 .. (i - 1) :
                        traffic_counts[order[j]] < traffic_counts[order[i]]
      ]_vars

\* south, east and west have 31 vehicles each and north 1: 5 seconds after
\* signal_timer the emergency rule has made south the active direction
C19_Witness ==
    /\ pc[LoopThread] = "ctl_timer"
    /\ now - signal_timer = 5
    /\ traffic_counts[north] = 1
    /\ \A d \in Dirs \ {north} : traffic_counts[d] = 31
    /\ current_signal = south
    /\ ~manual_override

\* C20: the success response of a set_signal request shows the lower-cased
\* direction of that request as the signal and manual_override true.
C20_ResponseShowsOwnOverride ==
    \A t \in ApiThreads :
        (pc[t] = "done" /\ op[t] = "set_signal" /\ resp[t].status = "success")
            => /\ resp[t].signal = lower(arg[t])
               /\ resp[t].manual_override

====
